---- MODULE Spec2Model ----
(***************************************************************************)
(* Model of streamlit_app.py: an inventory tracker over one SQLite file    *)
(* (inventory.db) with the tables inventory, transactions and              *)
(* sku_dictionary.  Every browser session runs the script top to bottom    *)
(* on each interaction (one render cycle): connect_db, initialize_data     *)
(* when the file was just created, load_data of both tables, the           *)
(* Receive/Remove buttons (update_inventory) and the reorder chart.        *)
(***************************************************************************)
EXTENDS FiniteSets, Integers, Sequences, TLC

\* ---------------------------------------------------------------- bounds
NumSessions == 2      \* browser sessions running the script
MaxTx == 2            \* update_inventory calls explored per database
MaxQty == 2           \* largest quantity typed into number_input
MaxItems == 2         \* rows of a pre-existing inventory table

Sessions == 1..NumSessions
Quantities == 1..MaxQty

\* ------------------------------------------------------- database contents
NULL == 0             \* Python None / SQL NULL as a key; AUTOINCREMENT ids start at 1

Tables == {"inventory", "transactions", "sku_dictionary"}

SeedDescriptions == <<"Bottled Water", "Soda", "Energy Drink", "Granola Bar">>

\* Next AUTOINCREMENT key of a table whose rows have the given keys, in order.
NextId(keys) == IF keys = <<>> THEN 1 ELSE keys[Len(keys)] + 1

\* INSERT INTO sku_dictionary (sku_description) VALUES (..4 rows..)
InsertSkus(rows) ==
    LET first == NextId([i \in 1..Len(rows) |-> rows[i].sku_id])
    IN  rows \o [i \in 1..Len(SeedDescriptions) |->
                   [sku_id |-> first + i - 1, sku_description |-> SeedDescriptions[i]]]

\* The inventory rows of an inventory.db that exists before the program starts
\* (the program itself inserts none): the first is below its reorder point, the
\* second nearly out of stock, the third at its reorder point.
ItemNames == <<"Bottled Water", "Soda", "Energy Drink">>
InitUnitsLeft == <<15, 1, 16>>

InventoryRow(i) ==
    [id |-> i, item_name |-> ItemNames[i], price |-> 150 * i, units_sold |-> 7 * i,
     units_left |-> InitUnitsLeft[i], cost_price |-> 80 * i, reorder_point |-> 16,
     description |-> "sample"]

InitInventories == { [i \in 1..n |-> InventoryRow(i)] : n \in 0..MaxItems }

OldTransaction == [id |-> 1, sku_id |-> 1, quantity |-> 1, transaction_type |-> "add"]

NoFile ==
    [exists |-> FALSE, tables |-> {}, inventory |-> <<>>, transactions |-> <<>>,
     sku_dictionary |-> <<>>]

\* An inventory.db that exists before the program starts: all tables present,
\* sku_dictionary seeded once, one transaction logged.
ExistingFiles ==
    { [exists |-> TRUE, tables |-> Tables, inventory |-> inv,
       transactions |-> <<OldTransaction>>, sku_dictionary |-> InsertSkus(<<>>)] :
         inv \in InitInventories }

\* ------------------------------------------------------------------ state
VARIABLES
    db,                  \* the committed contents of inventory.db
    db0,                 \* the contents the file had when the program started
    pc,                  \* pc[s]: position of session s in the script
    db_already_exists,   \* connect_db's local of session s
    df,                  \* df of session s (line 139)
    sku_df,              \* sku_df of session s (line 144)
    need_to_reorder      \* the names shown in the reorder alert

vars == <<db, db0, pc, db_already_exists, df, sku_df, need_to_reorder>>

NoneDF == [ok |-> FALSE, rows |-> <<>>]

\* ------------------------------------------------------------- operations

\* load_data(conn, table): all rows, or None when the SELECT raises.
load_data(d, table) ==
    IF table \in d.tables THEN [ok |-> TRUE, rows |-> d[table]] ELSE NoneDF

\* Variants of the UPDATE with a plausible slip each: a floor at zero, a missing
\* WHERE clause, and an upsert that creates the row it did not find.
UpdateUnitsLeftFloored(inv, sku_id, delta) ==
    [i \in 1..Len(inv) |->
        IF sku_id # NULL /\ inv[i].id = sku_id
        THEN [inv[i] EXCEPT !.units_left = IF @ + delta < 0 THEN 0 ELSE @ + delta]
        ELSE inv[i]]

UpdateUnitsLeftAllRows(inv, sku_id, delta) ==
    [i \in 1..Len(inv) |-> [inv[i] EXCEPT !.units_left = @ + delta]]

UpdateUnitsLeftUpsert(inv, sku_id, delta) ==
    IF sku_id # NULL /\ \A i \in 1..Len(inv) : inv[i].id # sku_id
    THEN Append(inv, [id |-> sku_id, item_name |-> "new", price |-> 0, units_sold |-> 0,
                      units_left |-> delta, cost_price |-> 0, reorder_point |-> 0,
                      description |-> "new"])
    ELSE [i \in 1..Len(inv) |->
            IF inv[i].id = sku_id THEN [inv[i] EXCEPT !.units_left = @ + delta] ELSE inv[i]]

\* UPDATE inventory SET units_left = units_left + delta WHERE id = sku_id
UpdateUnitsLeft(inv, sku_id, delta) ==
    [i \in 1..Len(inv) |->
        IF sku_id # NULL /\ inv[i].id = sku_id
        THEN [inv[i] EXCEPT !.units_left = @ + delta]
        ELSE inv[i]]

\* Variant: the simplified program that keeps no transaction log.
InsertTransactionNone(tx, sku_id, quantity, action) == tx

\* INSERT INTO transactions (sku_id, quantity, transaction_type) VALUES (?, ?, ?)
InsertTransaction(tx, sku_id, quantity, action) ==
    Append(tx, [id |-> NextId([i \in 1..Len(tx) |-> tx[i].id]), sku_id |-> sku_id, quantity |-> quantity,
                transaction_type |-> action])

\* Variants: a removal that also counts the units as sold, and an `else:` in
\* place of `elif action == "remove":`.
update_inventory_CountsSold(d, sku_id, quantity, action) ==
    LET inv == IF action = "add" THEN UpdateUnitsLeft(d.inventory, sku_id, quantity)
               ELSE IF action = "remove"
                    THEN [i \in 1..Len(d.inventory) |->
                            IF d.inventory[i].id = sku_id
                            THEN [d.inventory[i] EXCEPT !.units_left = @ - quantity,
                                                        !.units_sold = @ + quantity]
                            ELSE d.inventory[i]]
               ELSE d.inventory
    IN  [d EXCEPT !.inventory = inv,
                  !.transactions = InsertTransaction(d.transactions, sku_id, quantity, action)]

update_inventory_ElseRemove(d, sku_id, quantity, action) ==
    LET inv == IF action = "add" THEN UpdateUnitsLeft(d.inventory, sku_id, quantity)
               ELSE UpdateUnitsLeft(d.inventory, sku_id, -quantity)
    IN  [d EXCEPT !.inventory = inv,
                  !.transactions = InsertTransaction(d.transactions, sku_id, quantity, action)]

\* update_inventory(conn, sku_id, quantity, action): one committed transaction.
update_inventory(d, sku_id, quantity, action) ==
    LET inv == IF action = "add" THEN UpdateUnitsLeft(d.inventory, sku_id, quantity)
               ELSE IF action = "remove" THEN UpdateUnitsLeft(d.inventory, sku_id, -quantity)
               ELSE d.inventory
    IN  [d EXCEPT !.inventory = inv,
                  !.transactions = InsertTransaction(d.transactions, sku_id, quantity, action)]

\* df[df["units_left"] < df["reorder_point"]].loc[:, "item_name"]
BelowReorder(r) == r.units_left < r.reorder_point
NeedToReorder(rows) ==
    LET sel == SelectSeq(rows, BelowReorder)
    IN  [i \in 1..Len(sel) |-> sel[i].item_name]

\* list(sku_options.keys()); the selectbox yields None when there are none.
SkuOptions(frame) ==
    IF frame.rows = <<>> THEN {NULL} ELSE {frame.rows[i].sku_id : i \in 1..Len(frame.rows)}

\* update_inventory calls the model still explores on this database.
CanTransact == Len(db.transactions) - Len(db0.transactions) < MaxTx

\* ---------------------------------------------------------------- actions
Init ==
    /\ db \in {NoFile} \cup ExistingFiles
    /\ db0 = db
    /\ pc = [s \in Sessions |-> "start"]
    /\ db_already_exists = [s \in Sessions |-> FALSE]
    /\ df = [s \in Sessions |-> NoneDF]
    /\ sku_df = [s \in Sessions |-> NoneDF]
    /\ need_to_reorder = [s \in Sessions |-> <<>>]

InitFresh == Init /\ db = NoFile
InitExisting == Init /\ db \in ExistingFiles

\* A (re)run of the script begins; connect_db line 24: DB_FILENAME.exists().
CheckExists(s) ==
    /\ pc[s] \in {"start", "done"}
    /\ db_already_exists' = [db_already_exists EXCEPT ![s] = db.exists]
    /\ df' = [df EXCEPT ![s] = NoneDF]
    /\ sku_df' = [sku_df EXCEPT ![s] = NoneDF]
    /\ need_to_reorder' = [need_to_reorder EXCEPT ![s] = <<>>]
    /\ pc' = [pc EXCEPT ![s] = "connect"]
    /\ UNCHANGED <<db, db0>>

\* connect_db line 26: sqlite3.connect creates the file; line 133 branches.
Connect(s) ==
    /\ pc[s] = "connect"
    /\ db' = [db EXCEPT !.exists = TRUE]
    /\ pc' = [pc EXCEPT ![s] =
                IF ~db_already_exists[s] THEN "create_inventory" ELSE "load_inventory"]
    /\ UNCHANGED <<db0, db_already_exists, df, sku_df, need_to_reorder>>

\* initialize_data: each CREATE TABLE IF NOT EXISTS commits on its own.
CreateTable(s, at, table, next) ==
    /\ pc[s] = at
    /\ db' = [db EXCEPT !.tables = @ \cup {table}]
    /\ pc' = [pc EXCEPT ![s] = next]
    /\ UNCHANGED <<db0, db_already_exists, df, sku_df, need_to_reorder>>

CreateInventory(s) == CreateTable(s, "create_inventory", "inventory", "create_transactions")
CreateTransactions(s) ==
    CreateTable(s, "create_transactions", "transactions", "create_sku_dictionary")
CreateSkuDictionary(s) ==
    CreateTable(s, "create_sku_dictionary", "sku_dictionary", "seed")

\* Variant: sample data is inserted into the inventory table as well.
SeedSkusAndInventory(s) ==
    /\ pc[s] = "seed"
    /\ db' = [db EXCEPT !.sku_dictionary = InsertSkus(@),
                         !.inventory = @ \o [i \in 1..1 |-> InventoryRow(i)]]
    /\ pc' = [pc EXCEPT ![s] = "load_inventory"]
    /\ UNCHANGED <<db0, db_already_exists, df, sku_df, need_to_reorder>>

\* initialize_data: the INSERT into sku_dictionary and conn.commit().
SeedSkus(s) ==
    /\ pc[s] = "seed"
    /\ db' = [db EXCEPT !.sku_dictionary = InsertSkus(@)]
    /\ pc' = [pc EXCEPT ![s] = "load_inventory"]
    /\ UNCHANGED <<db0, db_already_exists, df, sku_df, need_to_reorder>>

\* line 139: df = load_data(conn, "inventory")
LoadInventory(s) ==
    /\ pc[s] = "load_inventory"
    /\ df' = [df EXCEPT ![s] = load_data(db, "inventory")]
    /\ pc' = [pc EXCEPT ![s] = "load_sku"]
    /\ UNCHANGED <<db, db0, db_already_exists, sku_df, need_to_reorder>>

\* line 144: sku_df = load_data(conn, "sku_dictionary")
LoadSku(s) ==
    /\ pc[s] = "load_sku"
    /\ sku_df' = [sku_df EXCEPT ![s] = load_data(db, "sku_dictionary")]
    /\ pc' = [pc EXCEPT ![s] = "buttons"]
    /\ UNCHANGED <<db, db0, db_already_exists, df, need_to_reorder>>

\* lines 174-178: the reorder alert, computed from df; the script then ends and
\* the page keeps showing the table (df) and the alert.
Chart(s) ==
    /\ need_to_reorder' = [need_to_reorder EXCEPT ![s] =
                             IF df[s].ok THEN NeedToReorder(df[s].rows) ELSE <<>>]
    /\ sku_df' = [sku_df EXCEPT ![s] = NoneDF]
    /\ pc' = [pc EXCEPT ![s] = "done"]

\* Variant: the new units_left is computed from the row the session displayed
\* (df) and written back, instead of being computed by the UPDATE statement.
TransactStale(s, action) ==
    /\ pc[s] = "buttons"
    /\ sku_df[s].ok
    /\ CanTransact
    /\ \E selected_sku_id \in SkuOptions(sku_df[s]), quantity \in Quantities :
          db' = [db EXCEPT
                   !.inventory = [i \in 1..Len(@) |->
                       IF @[i].id = selected_sku_id /\ df[s].ok /\ i <= Len(df[s].rows)
                       THEN [@[i] EXCEPT !.units_left = df[s].rows[i].units_left +
                                 (IF action = "add" THEN quantity ELSE -quantity)]
                       ELSE @[i]],
                   !.transactions = InsertTransaction(@, selected_sku_id, quantity, action)]
    /\ Chart(s)
    /\ UNCHANGED <<db0, db_already_exists, df>>

\* A button of lines 159/164 was pressed with the given widget values.
Transact(s, action) ==
    /\ pc[s] = "buttons"
    /\ sku_df[s].ok
    /\ CanTransact
    /\ \E selected_sku_id \in SkuOptions(sku_df[s]), quantity \in Quantities :
          db' = update_inventory(db, selected_sku_id, quantity, action)
    /\ Chart(s)
    /\ UNCHANGED <<db0, db_already_exists, df>>

ReceiveInventory(s) == Transact(s, "add")
RemoveInventory(s) == Transact(s, "remove")

\* Neither button was pressed in this cycle (or sku_df is None).
NoButton(s) ==
    /\ pc[s] = "buttons"
    /\ Chart(s)
    /\ UNCHANGED <<db, db0, db_already_exists, df>>

Step(s) ==
    \/ CheckExists(s)
    \/ Connect(s)
    \/ CreateInventory(s)
    \/ CreateTransactions(s)
    \/ CreateSkuDictionary(s)
    \/ SeedSkus(s)
    \/ LoadInventory(s)
    \/ LoadSku(s)
    \/ ReceiveInventory(s)
    \/ RemoveInventory(s)
    \/ NoButton(s)

Next == \E s \in Sessions : Step(s)

Spec == Init /\ [][Next]_vars

\* One session alone: the single-user use the application is written for.
NextSolo == Step(1)
SpecSolo == Init /\ [][NextSolo]_vars

\* Every session loads the page once; the runs of different sessions interleave.
FirstRun(s) == pc[s] = "start" /\ CheckExists(s)

\* ... on an inventory.db that already exists.
StepRace(s) ==
    \/ FirstRun(s)
    \/ Connect(s)
    \/ LoadInventory(s)
    \/ LoadSku(s)
    \/ ReceiveInventory(s)
    \/ RemoveInventory(s)
    \/ NoButton(s)

NextRace == \E s \in Sessions : StepRace(s)
SpecRace == InitExisting /\ [][NextRace]_vars

\* ... with no inventory.db file yet.
StepFresh(s) ==
    \/ StepRace(s)
    \/ CreateInventory(s)
    \/ CreateTransactions(s)
    \/ CreateSkuDictionary(s)
    \/ SeedSkus(s)

NextFresh == \E s \in Sessions : StepFresh(s)
SpecFresh == InitFresh /\ [][NextFresh]_vars

\* update_inventory called directly on an inventory.db that already exists.
Actions == {"add", "remove", "adjust"}
SkuArgs == 0..(MaxItems + 1)

Call(sku_id, quantity, action) ==
    /\ CanTransact
    /\ db' = update_inventory(db, sku_id, quantity, action)
    /\ UNCHANGED <<db0, pc, db_already_exists, df, sku_df, need_to_reorder>>

NextApi == \E sku_id \in SkuArgs, quantity \in Quantities, action \in Actions :
              Call(sku_id, quantity, action)
SpecApi == InitExisting /\ [][NextApi]_vars

\* ----------------------------------------------------------------- claims
HasItem(inv, k) == \E i \in 1..Len(inv) : inv[i].id = k
Item(inv, k) == inv[CHOOSE i \in 1..Len(inv) : inv[i].id = k]
ItemIds(inv) == [i \in 1..Len(inv) |-> inv[i].id]

\* The transactions logged since the program started.
NewTx == SubSeq(db.transactions, Len(db0.transactions) + 1, Len(db.transactions))
LastTx == db.transactions[Len(db.transactions)]

RECURSIVE LoggedQuantity(_, _, _)
LoggedQuantity(tx, k, type) ==
    IF tx = <<>> THEN 0
    ELSE (IF Head(tx).sku_id = k /\ Head(tx).transaction_type = type
          THEN Head(tx).quantity ELSE 0) + LoggedQuantity(Tail(tx), k, type)

\* Rows r and q agree on every column but units_left.
SameButUnitsLeft(r, q) == r = [q EXCEPT !.units_left = r.units_left]

\* C1: adjust(id, q, increase) on an existing id leaves units_left of that item
\* at its previous value plus exactly q, adjust(id, q, decrease) at its previous
\* value minus exactly q, with no floor at zero.
C1_AdjustExact ==
    [][\A k \in SkuArgs, q \in Quantities :
          /\ (Call(k, q, "add") /\ HasItem(db.inventory, k))
                => Item(db'.inventory, k).units_left = Item(db.inventory, k).units_left + q
          /\ (Call(k, q, "remove") /\ HasItem(db.inventory, k))
                => Item(db'.inventory, k).units_left = Item(db.inventory, k).units_left - q
      ]_vars

\* A removal has taken an item below zero.
C1_Witness ==
    /\ NewTx # <<>>
    /\ LastTx.transaction_type = "remove"
    /\ HasItem(db.inventory, LastTx.sku_id)
    /\ Item(db.inventory, LastTx.sku_id).units_left < 0

\* C2: adjust with an item_id that matches no inventory row leaves every
\* inventory record as it was.
C2_NoMatchNoChange ==
    [][\A k \in SkuArgs, q \in Quantities, a \in Actions :
          (Call(k, q, a) /\ ~HasItem(db.inventory, k)) => db'.inventory = db.inventory
      ]_vars

\* An add or remove for an id that is no row of a non-empty inventory was made.
C2_Witness ==
    /\ Len(NewTx) = 1
    /\ LastTx.transaction_type \in {"add", "remove"}
    /\ db.inventory # <<>>
    /\ ~HasItem(db.inventory, LastTx.sku_id)

\* C4: adjust changes nothing in the inventory but units_left of the row whose
\* id is the given id: the other columns of that row (units_sold included) and
\* every column of every other row stay as they were.
C4_OnlyUnitsLeft ==
    [][\A k \in SkuArgs, q \in Quantities, a \in Actions :
          Call(k, q, a) =>
             /\ Len(db'.inventory) = Len(db.inventory)
             /\ \A i \in 1..Len(db.inventory) :
                   /\ SameButUnitsLeft(db'.inventory[i], db.inventory[i])
                   /\ db.inventory[i].id # k => db'.inventory[i] = db.inventory[i]
      ]_vars

\* A removal changed units_left of one row of an inventory of several rows.
C4_Witness ==
    /\ Len(NewTx) = 1
    /\ LastTx.transaction_type = "remove"
    /\ Len(db.inventory) > 1
    /\ HasItem(db.inventory, LastTx.sku_id)
    /\ Item(db.inventory, LastTx.sku_id) # Item(db0.inventory, LastTx.sku_id)

\* The persisted state outside the inventory column units_left.
Frame(d) == [d EXCEPT !.inventory = [i \in 1..Len(@) |-> [@[i] EXCEPT !.units_left = 0]]]

\* C6 as stated: the only persisted effect of adjust is the new units_left of
\* the matching row; no audit log is written, so the persisted state outside that
\* value is the same before and after the call.
C6_OnlyUnitsLeftPersisted ==
    [][\A k \in SkuArgs, q \in Quantities, a \in Actions :
          Call(k, q, a) => Frame(db') = Frame(db)
      ]_vars

\* C6 as amended: adjust persists the new units_left of the matching row and
\* appends exactly one transactions record (sku_id, quantity, action); the
\* persisted state outside these two is the same before and after the call.
C6_UnitsLeftAndOneLogRecord ==
    [][\A k \in SkuArgs, q \in Quantities, a \in Actions :
          Call(k, q, a) =>
             /\ Len(db'.transactions) = Len(db.transactions) + 1
             /\ SubSeq(db'.transactions, 1, Len(db.transactions)) = db.transactions
             /\ db'.transactions[Len(db'.transactions)].sku_id = k
             /\ db'.transactions[Len(db'.transactions)].quantity = q
             /\ db'.transactions[Len(db'.transactions)].transaction_type = a
             /\ Frame(db') = [Frame(db) EXCEPT !.transactions = db'.transactions]
             /\ \A i \in 1..Len(db.inventory) :
                   db.inventory[i].id # k => db'.inventory[i] = db.inventory[i]
      ]_vars

\* An add was persisted: the row changed and the call is in the log.
C6_Witness ==
    /\ Len(NewTx) = 1
    /\ LastTx.transaction_type = "add"
    /\ HasItem(db.inventory, LastTx.sku_id)
    /\ Item(db.inventory, LastTx.sku_id).units_left =
          Item(db0.inventory, LastTx.sku_id).units_left + LastTx.quantity

\* Every units_left is the initial one plus the logged adds minus the logged removes.
LedgerConsistent ==
    /\ ItemIds(db.inventory) = ItemIds(db0.inventory)
    /\ \A i \in 1..Len(db.inventory) :
          db.inventory[i].units_left =
             db0.inventory[i].units_left
               + LoggedQuantity(NewTx, db.inventory[i].id, "add")
               - LoggedQuantity(NewTx, db.inventory[i].id, "remove")

\* Every call appends its record to the log and leaves the earlier records alone.
LogAppendOnly ==
    \A k \in SkuArgs, q \in Quantities, a \in Actions :
       Call(k, q, a) =>
          db'.transactions =
             Append(db.transactions,
                    [id |-> Len(db'.transactions), sku_id |-> k, quantity |-> q,
                     transaction_type |-> a])

\* C8: ledger consistency.  Every update_inventory call appends exactly one
\* transactions record and none is removed or altered, and units_left of every
\* item is its initial value plus the logged 'add' quantities minus the logged
\* 'remove' quantities for its id; a call with another action or a non-matching
\* id is logged too and changes no units_left.
C8_Ledger == []LedgerConsistent /\ [][LogAppendOnly]_vars

\* The log holds a call with an unknown action for an existing item and an add
\* that changed the item.
C8_Witness ==
    /\ Len(NewTx) = 2
    /\ NewTx[1].transaction_type = "adjust"
    /\ NewTx[2].transaction_type = "add"
    /\ NewTx[1].sku_id = NewTx[2].sku_id
    /\ HasItem(db.inventory, NewTx[2].sku_id)
    /\ db.inventory # db0.inventory

\* C3: at the end of every render cycle, a cycle in which Receive or Remove
\* called adjust included, the items shown as needing reorder are exactly the
\* items whose stored units_left is below their reorder_point.
C3_ReorderShownIsStored ==
    \A s \in Sessions :
       (pc[s] = "done" /\ df[s].ok) => need_to_reorder[s] = NeedToReorder(db.inventory)

\* C5: the inventory ids never change after the database is initialized: no row
\* is created or deleted, and the ids stay pairwise distinct.
C5_IdsStable ==
    /\ ItemIds(db.inventory) = ItemIds(db0.inventory)
    /\ \A i, j \in 1..Len(db.inventory) :
          db.inventory[i].id = db.inventory[j].id => i = j

\* A render cycle ended after adjustments, one of them for an id that is no
\* row, were made on a non-empty inventory.
C5_Witness ==
    /\ pc[1] = "done"
    /\ df[1].ok
    /\ db.inventory # <<>>
    /\ Len(NewTx) = MaxTx
    /\ \E i \in 1..Len(NewTx) : ~HasItem(db.inventory, NewTx[i].sku_id)
    /\ db.inventory # db0.inventory

\* Exactly two adjustments were committed since the start, both of item k.
TwoAdjusted(k) ==
    /\ HasItem(db0.inventory, k)
    /\ Len(NewTx) = 2
    /\ NewTx[1].sku_id = k
    /\ NewTx[2].sku_id = k

\* Session s displays item k with its initial units_left.
Shows(s, k) ==
    /\ pc[s] = "done"
    /\ df[s].ok
    /\ HasItem(df[s].rows, k)
    /\ Item(df[s].rows, k).units_left = Item(db0.inventory, k).units_left

\* Two sessions adjusted item k in the same direction, each having read the
\* item before either wrote it.
Overlapped(k) ==
    /\ TwoAdjusted(k)
    /\ NewTx[1].transaction_type = NewTx[2].transaction_type
    /\ \E s, t \in Sessions : s # t /\ Shows(s, k) /\ Shows(t, k)

BothApplied(k) ==
    Item(db.inventory, k).units_left =
       Item(db0.inventory, k).units_left
          + LoggedQuantity(NewTx, k, "add") - LoggedQuantity(NewTx, k, "remove")

\* C7 as stated: concurrent sessions lose updates (last write wins): after two
\* sessions adjusted the same item, each having read it before the other wrote,
\* units_left is not its initial value plus the signed sum of both quantities.
C7_LastWriteWins == \A k \in SkuArgs : Overlapped(k) => ~BothApplied(k)

\* C7 as amended: no update is lost: after two sessions have each completed an
\* adjust of the same item, in whatever interleaving, units_left is its initial
\* value plus the signed sum of both quantities.
C7_NoLostUpdate == \A k \in SkuArgs : TwoAdjusted(k) => BothApplied(k)

\* Two sessions added to item 1, each after reading it at its initial value.
C7_Witness ==
    /\ Overlapped(1)
    /\ NewTx[1].transaction_type = "add"
    /\ Item(db.inventory, 1).units_left > Item(db0.inventory, 1).units_left

RanInitialize(s) ==
    ~db_already_exists[s] /\ pc[s] \in {"load_inventory", "load_sku", "buttons", "done"}

C10_SeededOnce ==
    /\ Cardinality({s \in Sessions : RanInitialize(s)}) <= 1
    /\ db.sku_dictionary # <<>> => db.sku_dictionary = InsertSkus(<<>>)

====
